---- MODULE Spec2Model ----
(***************************************************************************)
(* Model of bot.py: a Telegram bot with two ConversationHandlers (data     *)
(* collection and search) registered in the same handler group, a          *)
(* module-level worksheet handle set once at import time, and the          *)
(* per-user dict context.user_data holding the list 'current_data'.        *)
(*                                                                         *)
(* One update is processed at a time (Application.process_update with the  *)
(* default concurrent_updates=False, handlers blocking), so every handler  *)
(* is one atomic action.  Conversation state is keyed by (chat, user)      *)
(* (ConversationHandler defaults per_chat=True, per_user=True), while      *)
(* context.user_data is keyed by the user alone.                           *)
(***************************************************************************)
EXTENDS Integers, Sequences, FiniteSets, TLC

\* ------------------------------------------------------------------ bounds
\* Number of plain text messages that get_data receives in one run.
MaxTexts == 2

Users == {"u1", "u2"}
Chats == {"c1", "c2"}

\* The conversation keys (chat, user) that updates come from: c1 is a group
\* chat with both users in it, c2 is the private chat of u1 with the bot.
Keys == {<<"c1", "u1">>, <<"c1", "u2">>, <<"c2", "u1">>}

\* The text of the n-th plain text message that get_data receives.  Each
\* gets a text of its own, so that an entry of a list or of a row names the
\* one message it came from.
AllTexts == <<"m1", "m2", "m3", "m4", "m5", "m6">>
TextOf(n) == AllTexts[n]
Texts == {AllTexts[n] : n \in 1..Len(AllTexts)}

\* ---------------------------------------------------- conversation states
GET_DATA == "GET_DATA"
RECEIVING_SEARCH_QUERY == "RECEIVING_SEARCH_QUERY"
END == "END"
\* A handler that returns None; also the state of a key that is not in
\* ConversationHandler._conversations.
None == "None"

\* callback_data of the inline buttons, and one that no keyboard offers.
CallbackData ==
  {"submit_data", "add_more_data", "finish_submission", "cancel_submission",
   "other"}

Commands == {"/start", "/search", "/cancel"}

\* ------------------------------------------------------- context.user_data
\* A user's dict: whether it has the key 'current_data', and the list.
EmptyUserData == [has |-> FALSE, current_data |-> <<>>]

\* Faulty variant of PopCurrentData: the pop is left out.
PopCurrentData_Missing(ud) == ud

\* user_data.pop('current_data', None)
PopCurrentData(ud) == EmptyUserData

\* Faulty variant of WorksheetAvailable: the handle is not tested.
WorksheetAvailable_Untested(ws) == TRUE

\* The test  if worksheet:  on the module-level handle.
WorksheetAvailable(ws) == ws

\* ------------------------------------------------------------ the replies
Reply(method, text, markup) ==
  [method |-> method, text |-> text, reply_markup |-> markup]

StartKeyboard == <<"submit_data", "cancel_submission">>
GetDataKeyboard == <<"add_more_data", "finish_submission", "cancel_submission">>

MsgOkaySend == "Okay, send me the data point."
MsgAdded == "Data successfully added to the dataset!"
MsgAppendError == "Sorry, there was an error adding data to the sheet."
MsgNoWorksheet == "Sorry, could not connect to Google Sheets. Data not saved."
MsgNoData == "No data collected yet."
MsgCancelledButton == "Data submission cancelled."
MsgCancelledCommand == "Data submission cancelled. Bye!"
MsgAskQuery == "What would you like to search for?"
MsgNoResults == "No search results found."
MsgSearchError == "Sorry, an error occurred while performing the search."
MsgSearchCancelled == "Search cancelled."

\* What a handler did: the state it returns, the user's dict after it, the
\* replies it sent, the rows it passed to worksheet.append_row and the
\* queries it passed to google_search.
Result(ret, ud, replies, rows, queries) ==
  [ret |-> ret, user_data |-> ud, replies |-> replies,
   append_row |-> rows, google_search |-> queries]

\* ------------------------------------------- data collection handlers
start(user, ud) ==
  Result(GET_DATA, ud,
         << Reply("reply_html",
                  "Hi " \o user \o "! I'm a bot to help you collect data for your AI model."
                  \o "Send me the data you want to add to the dataset. Type /cancel to stop at any time.",
                  <<>>),
            Reply("reply_text", "Please select an action:", StartKeyboard) >>,
         <<>>, <<>>)

\* Faulty variant of get_data: the dialogue ends after one data point.
get_data_Ends(ud, text) ==
  LET list == IF ~ud.has THEN <<>> ELSE ud.current_data
  IN  Result(END,
             [has |-> TRUE, current_data |-> Append(list, text)],
             << Reply("reply_text",
                      "Received your data point. Add another one or use the buttons.",
                      <<>>) >>,
             <<>>, <<>>)

\* Faulty variant of get_data: the text is inserted at the head of the list.
get_data_Prepends(ud, text) ==
  LET list == IF ~ud.has THEN <<>> ELSE ud.current_data
  IN  Result(GET_DATA,
             [has |-> TRUE, current_data |-> <<text>> \o list],
             << Reply("reply_text",
                      "Received your data point. Add another one or use the buttons.",
                      <<>>),
                Reply("reply_text", "What would you like to do next?",
                      GetDataKeyboard) >>,
             <<>>, <<>>)

get_data(ud, text) ==
  LET list == IF ~ud.has THEN <<>> ELSE ud.current_data
  IN  Result(GET_DATA,
             [has |-> TRUE, current_data |-> Append(list, text)],
             << Reply("reply_text",
                      "Received your data point. Add another one or use the buttons.",
                      <<>>),
                Reply("reply_text", "What would you like to do next?",
                      GetDataKeyboard) >>,
             <<>>, <<>>)

\* Faulty variant of data_button: when append_row raises, the list is kept
\* and the dialogue stays in GET_DATA for another attempt.
data_button_KeepsOnError(ud, data, ws, raises) ==
  IF data = "submit_data" \/ data = "add_more_data"
  THEN Result(GET_DATA, ud,
              << Reply("edit_message_text", MsgOkaySend, <<>>) >>, <<>>, <<>>)
  ELSE IF data = "finish_submission"
  THEN IF ud.has /\ Len(ud.current_data) > 0
       THEN IF WorksheetAvailable(ws)
            THEN IF raises
                 THEN Result(GET_DATA, ud,
                             << Reply("edit_message_text", MsgAppendError,
                                      <<>>) >>,
                             << ud.current_data >>, <<>>)
                 ELSE Result(END, PopCurrentData(ud),
                             << Reply("edit_message_text", MsgAdded, <<>>) >>,
                             << ud.current_data >>, <<>>)
            ELSE Result(END, PopCurrentData(ud),
                        << Reply("edit_message_text", MsgNoWorksheet, <<>>) >>,
                        <<>>, <<>>)
       ELSE Result(END, ud,
                   << Reply("edit_message_text", MsgNoData, <<>>) >>,
                   <<>>, <<>>)
  ELSE IF data = "cancel_submission"
  THEN Result(END, PopCurrentData(ud),
              << Reply("edit_message_text", MsgCancelledButton, <<>>) >>,
              <<>>, <<>>)
  ELSE Result(None, ud, <<>>, <<>>, <<>>)

\* Faulty variant of data_button: "finish" does not test that the list is
\* there and non-empty before it writes the row.
data_button_NoEmptyTest(ud, data, ws, raises) ==
  IF data = "submit_data" \/ data = "add_more_data"
  THEN Result(GET_DATA, ud,
              << Reply("edit_message_text", MsgOkaySend, <<>>) >>, <<>>, <<>>)
  ELSE IF data = "finish_submission"
  THEN IF WorksheetAvailable(ws)
       THEN Result(END, PopCurrentData(ud),
                   << Reply("edit_message_text",
                            IF raises THEN MsgAppendError ELSE MsgAdded,
                            <<>>) >>,
                   << ud.current_data >>, <<>>)
       ELSE Result(END, PopCurrentData(ud),
                   << Reply("edit_message_text", MsgNoWorksheet, <<>>) >>,
                   <<>>, <<>>)
  ELSE IF data = "cancel_submission"
  THEN Result(END, PopCurrentData(ud),
              << Reply("edit_message_text", MsgCancelledButton, <<>>) >>,
              <<>>, <<>>)
  ELSE Result(None, ud, <<>>, <<>>, <<>>)

\* ws: the module-level worksheet is not None; raises: worksheet.append_row
\* raises when it is called.
data_button(ud, data, ws, raises) ==
  IF data = "submit_data" \/ data = "add_more_data"
  THEN Result(GET_DATA, ud,
              << Reply("edit_message_text", MsgOkaySend, <<>>) >>, <<>>, <<>>)
  ELSE IF data = "finish_submission"
  THEN IF ud.has /\ Len(ud.current_data) > 0
       THEN IF WorksheetAvailable(ws)
            THEN Result(END, PopCurrentData(ud),
                        << Reply("edit_message_text",
                                 IF raises THEN MsgAppendError ELSE MsgAdded,
                                 <<>>) >>,
                        << ud.current_data >>, <<>>)
            ELSE Result(END, PopCurrentData(ud),
                        << Reply("edit_message_text", MsgNoWorksheet, <<>>) >>,
                        <<>>, <<>>)
       ELSE Result(END, ud,
                   << Reply("edit_message_text", MsgNoData, <<>>) >>,
                   <<>>, <<>>)
  ELSE IF data = "cancel_submission"
  THEN Result(END, PopCurrentData(ud),
              << Reply("edit_message_text", MsgCancelledButton, <<>>) >>,
              <<>>, <<>>)
  ELSE Result(None, ud, <<>>, <<>>, <<>>)

\* Faulty variant of cancel_data_collection: the list is not popped.
cancel_data_collection_KeepsList(ud) ==
  Result(END, ud,
         << Reply("reply_text", MsgCancelledCommand, <<>>) >>, <<>>, <<>>)

cancel_data_collection(ud) ==
  Result(END, PopCurrentData(ud),
         << Reply("reply_text", MsgCancelledCommand, <<>>) >>, <<>>, <<>>)

\* ------------------------------------------------------ search handlers
search_command(ud) ==
  Result(RECEIVING_SEARCH_QUERY, ud,
         << Reply("reply_text", MsgAskQuery, <<>>) >>, <<>>, <<>>)

\* Faulty variant of OrNA: only None is replaced, an empty string is kept.
OrNA_OnlyNone(x) == IF x = <<>> THEN "N/A" ELSE x[1]

\* A field of a search result is <<>> (None) or <<s>> (the string s).
\* Python's  x or 'N/A' : None and the empty string both give 'N/A'.
OrNA(x) == IF x = <<>> \/ x[1] = "" THEN "N/A" ELSE x[1]

RenderResult(result) ==
  "Title: " \o OrNA(result.source_title) \o "\n"
  \o "URL: " \o OrNA(result.url) \o "\n"
  \o "Snippet: " \o OrNA(result.snippet) \o "\n\n"

RECURSIVE RenderResults(_)
RenderResults(results) ==
  IF results = <<>> THEN ""
  ELSE RenderResult(Head(results)) \o RenderResults(Tail(results))

\* Faulty variant of SearchReplyText: the first result set is not tested
\* for being empty.
SearchReplyText_AnyResultSet(search_results) ==
  IF search_results # <<>>
  THEN "Search Results:\n\n" \o RenderResults(search_results[1].results)
  ELSE MsgNoResults

\* The reply_text built from what google_search returned.
SearchReplyText(search_results) ==
  IF search_results # <<>> /\ search_results[1].results # <<>>
  THEN "Search Results:\n\n" \o RenderResults(search_results[1].results)
  ELSE MsgNoResults

\* Faulty variant of perform_search: no try/except, so that an exception
\* of google_search leaves the handler before the reply and the return.
perform_search_Uncaught(ud, text, raises, search_results) ==
  IF raises
  THEN Result(None, ud,
              << Reply("reply_text", "Searching for '" \o text \o "'...",
                       <<>>) >>,
              <<>>, << <<text>> >>)
  ELSE Result(END, ud,
              << Reply("reply_text", "Searching for '" \o text \o "'...",
                       <<>>),
                 Reply("reply_text", SearchReplyText(search_results), <<>>) >>,
              <<>>, << <<text>> >>)

\* raises: google_search raises; search_results: what it returns otherwise.
perform_search(ud, text, raises, search_results) ==
  Result(END, ud,
         << Reply("reply_text", "Searching for '" \o text \o "'...", <<>>),
            Reply("reply_text",
                  IF raises THEN MsgSearchError
                  ELSE SearchReplyText(search_results),
                  <<>>) >>,
         <<>>, << <<text>> >>)

cancel_search(ud) ==
  Result(END, ud,
         << Reply("reply_text", MsgSearchCancelled, <<>>) >>, <<>>, <<>>)

\* What google_search may return.
SearchResult(title, url, snippet) ==
  [source_title |-> title, url |-> url, snippet |-> snippet]

SearchResponses ==
  { <<>>,
    << [results |-> <<>>] >>,
    << [results |-> << SearchResult(<<"A">>, <<"u">>, <<>>),
                       SearchResult(<<>>, <<"">>, <<"s">>) >>] >> }

\* ------------------------------------------------------------- dispatch
\* An update: a command, a plain text message or a button press, with the
\* command, the text or the callback data in arg.
Update(kind, arg) == [kind |-> kind, arg |-> arg]

\* Faulty variant of data_collection_check_update: the CallbackQueryHandler
\* is registered for every state of the key, not for GET_DATA alone.
data_collection_check_update_AnyState(state, upd) ==
  IF upd.kind = "callback_query" THEN "data_button"
  ELSE IF state = None
  THEN IF upd.kind = "command" /\ upd.arg = "/start" THEN "start" ELSE None
  ELSE IF state = GET_DATA /\ upd.kind = "text" THEN "get_data"
  ELSE IF upd.kind = "command" /\ upd.arg = "/cancel"
       THEN "cancel_data_collection"
  ELSE None

\* ConversationHandler.check_update of data_collection_conv_handler: the
\* entry points when the key has no state, else the handlers of the state
\* and then the fallbacks.  The handler chosen, or None.
data_collection_check_update(state, upd) ==
  IF state = None
  THEN IF upd.kind = "command" /\ upd.arg = "/start" THEN "start" ELSE None
  ELSE IF state = GET_DATA /\ upd.kind = "text" THEN "get_data"
  ELSE IF state = GET_DATA /\ upd.kind = "callback_query" THEN "data_button"
  ELSE IF upd.kind = "command" /\ upd.arg = "/cancel"
       THEN "cancel_data_collection"
  ELSE None

\* ConversationHandler.check_update of search_conv_handler.
search_check_update(state, upd) ==
  IF state = None
  THEN IF upd.kind = "command" /\ upd.arg = "/search"
       THEN "search_command" ELSE None
  ELSE IF state = RECEIVING_SEARCH_QUERY /\ upd.kind = "text"
       THEN "perform_search"
  ELSE IF upd.kind = "command" /\ upd.arg = "/cancel" THEN "cancel_search"
  ELSE None

\* Both conversation handlers are in group 0: the first one, in the order
\* of add_handler, whose check_update accepts the update handles it, and
\* the other one does not see it.
Route(data_state, search_state, upd) ==
  IF data_collection_check_update(data_state, upd) # None
  THEN data_collection_check_update(data_state, upd)
  ELSE search_check_update(search_state, upd)

\* Faulty variant of UpdateState: a handler's END does not end the
\* conversation.
UpdateState_EndIgnored(old, ret) ==
  IF ret = END \/ ret = None THEN old ELSE ret

\* ConversationHandler._update_state: END removes the key, None keeps the
\* state, anything else becomes the state.
UpdateState(old, ret) ==
  IF ret = END THEN None ELSE IF ret = None THEN old ELSE ret

\* ---------------------------------------------------------------- state
VARIABLES
  worksheet,         \* TRUE: the worksheet handle; FALSE: worksheet is None
  data_conv,         \* data_collection_conv_handler's state per (chat, user)
  search_conv,       \* search_conv_handler's state per (chat, user)
  user_data,         \* context.user_data per user
  next_text,         \* number of the next text that get_data receives
  last,              \* the update handled last and what its handler did
  collected,         \* per (chat, user): the texts get_data received in the
                     \* dialogue open there, in order (<<>> when none is)
  appends_of,        \* per (chat, user): append_row calls made by the
                     \* dialogue open there (0 when none is)
  cancelled          \* texts collected in a dialogue that ended by a cancel

vars ==
  << worksheet, data_conv, search_conv, user_data, next_text, last,
     collected, appends_of, cancelled >>

Range(seq) == {seq[i] : i \in 1..Len(seq)}

DataHandlers == {"start", "get_data", "data_button", "cancel_data_collection"}
SearchHandlers == {"search_command", "perform_search", "cancel_search"}

\* The module-level try/except sets worksheet once, to the handle or to
\* None; nothing assigns it afterwards.
Init ==
  /\ worksheet \in BOOLEAN
  /\ data_conv = [k \in Keys |-> None]
  /\ search_conv = [k \in Keys |-> None]
  /\ user_data = [u \in Users |-> EmptyUserData]
  /\ next_text = 1
  /\ last = [handler |-> None, chat |-> "", user |-> "",
             update |-> Update("", ""), raised |-> FALSE, response |-> <<>>,
             ret |-> None, replies |-> <<>>, append_row |-> <<>>,
             google_search |-> <<>>]
  /\ collected = [k \in Keys |-> <<>>]
  /\ appends_of = [k \in Keys |-> 0]
  /\ cancelled = {}

\* Faulty variant of StoreUserData: one dict shared by all users.
StoreUserData_Shared(all, u, ud) == [v \in Users |-> ud]

\* context.user_data is the dict of the update's user: what a handler
\* writes to it is written to that user's dict.
StoreUserData(all, u, ud) == [all EXCEPT ![u] = ud]

\* Application.process_update for one update of user u in chat c that
\* handler h (of one of the two conversation handlers) handled with result
\* res: the handler's writes to the user's dict, the conversation state of
\* the key, and the calls it made.  raises: the external call raises if it
\* is made; response: what google_search returns if it is called.
Deliver(c, u, upd, h, res, raises, response) ==
  /\ user_data' = StoreUserData(user_data, u, res.user_data)
  /\ data_conv' =
       IF h \in DataHandlers
       THEN [data_conv EXCEPT ![c, u] = UpdateState(@, res.ret)]
       ELSE data_conv
  /\ search_conv' =
       IF h \in SearchHandlers
       THEN [search_conv EXCEPT ![c, u] = UpdateState(@, res.ret)]
       ELSE search_conv
  /\ last' = [handler |-> h, chat |-> c, user |-> u, update |-> upd,
              raised |-> raises /\ (res.append_row # <<>>
                                    \/ res.google_search # <<>>),
              response |-> response,
              ret |-> res.ret, replies |-> res.replies,
              append_row |-> res.append_row,
              google_search |-> res.google_search]

Routed(c, u, upd) == Route(data_conv[c, u], search_conv[c, u], upd)

\* ---------------------------------------------------------------- actions
Update_start(c, u) ==
  LET upd == Update("command", "/start") IN
  /\ Routed(c, u, upd) = "start"
  /\ Deliver(c, u, upd, "start", start(u, user_data[u]), FALSE, <<>>)
  /\ UNCHANGED << worksheet, next_text, collected, appends_of, cancelled >>

Update_get_data(c, u) ==
  /\ next_text <= MaxTexts
  /\ LET text == TextOf(next_text)
         upd == Update("text", text)
     IN  /\ Routed(c, u, upd) = "get_data"
         /\ Deliver(c, u, upd, "get_data", get_data(user_data[u], text),
                    FALSE, <<>>)
         /\ collected' = [collected EXCEPT ![c, u] = Append(@, text)]
  /\ next_text' = next_text + 1
  /\ UNCHANGED << worksheet, appends_of, cancelled >>

Update_data_button(c, u, data, raises) ==
  LET upd == Update("callback_query", data)
      res == data_button(user_data[u], data, worksheet, raises)
  IN  /\ Routed(c, u, upd) = "data_button"
      /\ Deliver(c, u, upd, "data_button", res, raises, <<>>)
      /\ appends_of' =
           [appends_of EXCEPT ![c, u] =
              IF UpdateState(data_conv[c, u], res.ret) = None THEN 0
              ELSE @ + Len(res.append_row)]
      /\ collected' =
           [collected EXCEPT ![c, u] =
              IF UpdateState(data_conv[c, u], res.ret) = None THEN <<>>
              ELSE @]
      /\ cancelled' =
           IF data = "cancel_submission"
           THEN cancelled \cup Range(collected[c, u]) ELSE cancelled
      /\ UNCHANGED << worksheet, next_text >>

Update_cancel_data_collection(c, u) ==
  LET upd == Update("command", "/cancel") IN
  /\ Routed(c, u, upd) = "cancel_data_collection"
  /\ Deliver(c, u, upd, "cancel_data_collection",
             cancel_data_collection(user_data[u]), FALSE, <<>>)
  /\ cancelled' = cancelled \cup Range(collected[c, u])
  /\ collected' = [collected EXCEPT ![c, u] = <<>>]
  /\ appends_of' = [appends_of EXCEPT ![c, u] = 0]
  /\ UNCHANGED << worksheet, next_text >>

Update_search_command(c, u) ==
  LET upd == Update("command", "/search") IN
  /\ Routed(c, u, upd) = "search_command"
  /\ Deliver(c, u, upd, "search_command", search_command(user_data[u]),
             FALSE, <<>>)
  /\ UNCHANGED << worksheet, next_text, collected, appends_of, cancelled >>

Update_perform_search(c, u, text, raises, search_results) ==
  LET upd == Update("text", text) IN
  /\ Routed(c, u, upd) = "perform_search"
  /\ Deliver(c, u, upd, "perform_search",
             perform_search(user_data[u], text, raises, search_results),
             raises, search_results)
  /\ UNCHANGED << worksheet, next_text, collected, appends_of, cancelled >>

Update_cancel_search(c, u) ==
  LET upd == Update("command", "/cancel") IN
  /\ Routed(c, u, upd) = "cancel_search"
  /\ Deliver(c, u, upd, "cancel_search", cancel_search(user_data[u]),
             FALSE, <<>>)
  /\ UNCHANGED << worksheet, next_text, collected, appends_of, cancelled >>

\* The text of a search query.
Queries == {"q"}

\* The updates a user can send.
Updates ==
  {Update("command", cmd) : cmd \in Commands}
  \cup {Update("callback_query", data) : data \in CallbackData}
  \cup {Update("text", text) : text \in Queries}

\* An update that neither conversation handler accepts: no handler runs.
\* (last keeps the kind of the update, not its text or callback data.)
Update_unhandled(c, u, kind) ==
  /\ \E upd \in Updates : upd.kind = kind /\ Routed(c, u, upd) = None
  /\ last' = [handler |-> None, chat |-> c, user |-> u,
              update |-> Update(kind, ""),
              raised |-> FALSE, response |-> <<>>, ret |-> None,
              replies |-> <<>>, append_row |-> <<>>, google_search |-> <<>>]
  /\ UNCHANGED << worksheet, data_conv, search_conv, user_data, next_text,
                  collected, appends_of, cancelled >>

Next ==
  \/ \E <<c, u>> \in Keys : Update_start(c, u)
  \/ \E <<c, u>> \in Keys : Update_get_data(c, u)
  \/ \E <<c, u>> \in Keys, data \in CallbackData :
       \E raises \in (IF data = "finish_submission" THEN BOOLEAN ELSE {FALSE}) :
         Update_data_button(c, u, data, raises)
  \/ \E <<c, u>> \in Keys : Update_cancel_data_collection(c, u)
  \/ \E <<c, u>> \in Keys : Update_search_command(c, u)
  \/ \E <<c, u>> \in Keys, text \in Queries, raises \in BOOLEAN :
       \E search_results \in (IF raises THEN {<<>>} ELSE SearchResponses) :
         Update_perform_search(c, u, text, raises, search_results)
  \/ \E <<c, u>> \in Keys : Update_cancel_search(c, u)
  \/ \E <<c, u>> \in Keys, kind \in {"command", "text", "callback_query"} :
       Update_unhandled(c, u, kind)

Spec == Init /\ [][Next]_vars

\* ----------------------------------------- the rendering of search results
\* Longest result list that google_search returns in RenderSpec.
MaxResults == 2

\* The values of the three fields of a result: None, the empty string, or
\* a string that tells the field.
ResultInputs ==
  { SearchResult(t, l, n) :
      t \in {<<>>, <<"">>, <<"A">>},
      l \in {<<>>, <<"">>, <<"u">>},
      n \in {<<>>, <<"">>, <<"s">>} }

\* The result lists of 0..MaxResults results.
ResultLists ==
  UNION { [1..n -> ResultInputs] : n \in 0..MaxResults }

\* One user searches, and google_search returns one result set with any of
\* the result lists.
RenderNext ==
  \/ Update_search_command("c1", "u1")
  \/ \E text \in Queries, results \in ResultLists :
       Update_perform_search("c1", "u1", text, FALSE,
                             << [results |-> results] >>)

RenderSpec == Init /\ [][RenderNext]_vars

\* ------------------------------------------------------ claim vocabulary
\* What a reply sequence of one edit_message_text looks like.
Edited(text) == << Reply("edit_message_text", text, <<>>) >>

ListOf(u) == user_data[u].current_data

\* last describes a "finish" button press that data_button handled.
LastFinish ==
  last.handler = "data_button" /\ last.update.arg = "finish_submission"

\* last describes a cancel: the cancel button or /cancel, in either dialogue.
LastCancel ==
  \/ last.handler = "data_button" /\ last.update.arg = "cancel_submission"
  \/ last.handler \in {"cancel_data_collection", "cancel_search"}

\* The texts get_data received from user u in the dialogues u has open.
CollectedBy(u) == UNION {Range(collected[k]) : k \in {x \in Keys : x[2] = u}}

\* ------------------------------------------------------------------- C1
\* C1 (as claimed): when the "finish" button is handled for a dialogue in
\* which get_data received the texts collected[c,u] (N of them, in order):
\* if N > 0, the worksheet is there and append_row does not raise, the one
\* append_row call carries exactly those texts in order; if N = 0 there is
\* no append_row call and the reply is "No data collected yet.".
C1_FinishWritesCollected ==
  [][ \A <<c, u>> \in Keys :
        ( /\ data_conv[c, u] = GET_DATA
          /\ last'.handler = "data_button"
          /\ last'.update.arg = "finish_submission"
          /\ last'.chat = c /\ last'.user = u )
        => /\ ( Len(collected[c, u]) > 0 /\ worksheet /\ ~last'.raised )
                => last'.append_row = << collected[c, u] >>
           /\ Len(collected[c, u]) = 0
                => ( last'.append_row = <<>>
                     /\ last'.replies = Edited(MsgNoData) ) ]_vars

\* ------------------------------------------------------------------- C2
\* C2: a dialogue makes at most one append_row call; a dialogue that ends by
\* the cancel button or /cancel has made none and makes none; and no row
\* passed to append_row holds a text collected in a dialogue that was
\* cancelled before.
C2_OneRowPerDialogue ==
  [][ /\ \A <<c, u>> \in Keys :
           appends_of[c, u]
             + (IF last'.chat = c /\ last'.user = u
                THEN Len(last'.append_row) ELSE 0) <= 1
      /\ \A <<c, u>> \in Keys :
           ( /\ data_conv[c, u] = GET_DATA
             /\ last'.chat = c /\ last'.user = u
             /\ \/ last'.handler = "cancel_data_collection"
                \/ /\ last'.handler = "data_button"
                   /\ last'.update.arg = "cancel_submission" )
           => ( appends_of[c, u] = 0 /\ last'.append_row = <<>>
                /\ data_conv'[c, u] = None )
      /\ \A i \in 1..Len(last'.append_row) :
           Range(last'.append_row[i]) \cap cancelled' = {} ]_vars

\* A row is written after a dialogue with collected texts was cancelled.
C2_Witness ==
  /\ cancelled # {}
  /\ last.append_row # <<>>
  /\ ~last.raised

\* ------------------------------------------------------------------- C3
\* C3 (as claimed): with worksheet None, every handled "finish" replies the
\* could-not-connect message and append_row is not called.
C3_EveryFinishUnavailable ==
  ( ~worksheet /\ LastFinish )
  => ( last.replies = Edited(MsgNoWorksheet) /\ last.append_row = <<>> )

\* C3 (amended): with worksheet None, a handled "finish" replies the
\* could-not-connect message when the user's list is non-empty and "No data
\* collected yet." when it is empty or absent; no step calls append_row; and
\* worksheet stays None.
C3_FinishUnavailableWhenData ==
  [][ ~worksheet =>
        /\ ~worksheet'
        /\ last'.append_row = <<>>
        /\ \A <<c, u>> \in Keys :
             ( /\ data_conv[c, u] = GET_DATA
               /\ last'.handler = "data_button"
               /\ last'.update.arg = "finish_submission"
               /\ last'.chat = c /\ last'.user = u )
             => last'.replies =
                  IF user_data[u].has /\ ListOf(u) # <<>>
                  THEN Edited(MsgNoWorksheet) ELSE Edited(MsgNoData) ]_vars

\* With worksheet None a finish with collected data was handled.
C3_Witness ==
  /\ ~worksheet
  /\ LastFinish
  /\ last.replies = Edited(MsgNoWorksheet)

\* ------------------------------------------------------------------- C4
\* C4 (as claimed): after a cancel (button or /cancel, whichever dialogue
\* handles it) the user's list is cleared and neither dialogue of that user
\* in that chat is active.
C4_CancelEndsEverything ==
  LastCancel =>
    /\ ~user_data[last.user].has
    /\ data_conv[last.chat, last.user] = None
    /\ search_conv[last.chat, last.user] = None

\* ------------------------------------------------------------------- C5
\* C5 (as claimed): right after the start handler ran, the dialogue is in
\* GET_DATA and the user's list is empty or absent.
C5_StartBeginsEmpty ==
  last.handler = "start" =>
    /\ data_conv[last.chat, last.user] = GET_DATA
    /\ ListOf(last.user) = <<>>

\* ------------------------------------------------------------------- C6
\* C6: every entry of a user's list is a text get_data received from that
\* user in a dialogue the user has open; every row passed to append_row
\* holds only texts get_data received from the user who pressed "finish";
\* and a step for one user changes neither the list nor the conversation
\* states of any other user.
C6_UsersIsolated ==
  [][ /\ \A u \in Users : (Range(ListOf(u)) \subseteq CollectedBy(u))'
      /\ \A i \in 1..Len(last'.append_row) :
           Range(last'.append_row[i]) \subseteq CollectedBy(last'.user)
      /\ \A <<c, u>> \in Keys :
           u # last'.user =>
             /\ user_data'[u] = user_data[u]
             /\ data_conv'[c, u] = data_conv[c, u]
             /\ search_conv'[c, u] = search_conv[c, u] ]_vars

\* u1 had a row written while u2 holds collected entries of its own.
C6_Witness ==
  /\ last.user = "u1"
  /\ last.append_row # <<>>
  /\ ListOf("u2") # <<>>

\* ------------------------------------------------------------------- C7
\* C7: after a handled "finish" the data collection dialogue of that key is
\* over and the user's list is empty, whichever of the four replies was
\* sent; append_row is called at most once, and when it raises the reply is
\* the generic error and it was called exactly once.
C7_FinishAlwaysEnds ==
  LastFinish =>
    /\ data_conv[last.chat, last.user] = None
    /\ ListOf(last.user) = <<>>
    /\ last.replies \in {Edited(MsgAdded), Edited(MsgNoWorksheet),
                         Edited(MsgAppendError), Edited(MsgNoData)}
    /\ Len(last.append_row) <= 1
    /\ last.raised =>
         ( last.replies = Edited(MsgAppendError)
           /\ Len(last.append_row) = 1 )

\* A finish whose append_row call raised.
C7_Witness ==
  /\ LastFinish
  /\ last.raised
  /\ last.append_row # <<>>

\* ------------------------------------------------------------------- C8
\* C8: after perform_search handled a query the search dialogue of that key
\* is over; google_search was called exactly once, with that query; two
\* replies were sent, and when the call raised the second one is the generic
\* failure message.
C8_SearchAlwaysEnds ==
  last.handler = "perform_search" =>
    /\ search_conv[last.chat, last.user] = None
    /\ last.google_search = << << last.update.arg >> >>
    /\ Len(last.replies) = 2
    /\ last.raised => last.replies[2].text = MsgSearchError

\* A search whose google_search call raised.
C8_Witness ==
  /\ last.handler = "perform_search"
  /\ last.raised

\* ------------------------------------------------------------------- C9
\* C9 (as claimed): when the search dialogue of a key awaits the query, a
\* plain text message from that key is handled by perform_search: one
\* google_search call with that text, the search dialogue over, and no
\* user's list changed.
C9_TextIsQuery ==
  [][ \A <<c, u>> \in Keys :
        ( /\ search_conv[c, u] = RECEIVING_SEARCH_QUERY
          /\ last'.update.kind = "text"
          /\ last'.chat = c /\ last'.user = u )
        => /\ last'.handler = "perform_search"
           /\ last'.google_search = << << last'.update.arg >> >>
           /\ search_conv'[c, u] = None
           /\ user_data' = user_data ]_vars

\* ------------------------------------------------------------------ C10
\* C10: a search that did not raise and returned no result set, or a first
\* result set without results, replies "No search results found." as its
\* result message; and a step handled by search_command, perform_search or
\* cancel_search calls append_row never and changes no user's list.
C10_EmptySearchNoSideEffect ==
  [][ /\ ( /\ last'.handler = "perform_search"
           /\ ~last'.raised
           /\ \/ last'.response = <<>>
              \/ last'.response[1].results = <<>> )
         => ( Len(last'.replies) = 2
              /\ last'.replies[2].text = MsgNoResults )
      /\ last'.handler \in SearchHandlers
         => ( last'.append_row = <<>> /\ user_data' = user_data ) ]_vars

\* A search with an empty first result set, while a user holds entries.
C10_Witness ==
  /\ last.handler = "perform_search"
  /\ ~last.raised
  /\ last.response = << [results |-> <<>>] >>
  /\ \E u \in Users : ListOf(u) # <<>>

\* ------------------------------------------------------------------ C11
\* A field as the claim words it: "N/A" for a missing field (None or the
\* empty string), else the field.
FieldText(x) == IF x \in {<<>>, <<"">>} THEN "N/A" ELSE x[1]

\* The blocks of the claim, one per result, in input order.
RECURSIVE Blocks(_)
Blocks(results) ==
  IF results = <<>> THEN ""
  ELSE "Title: " \o FieldText(results[1].source_title)
       \o "\nURL: " \o FieldText(results[1].url)
       \o "\nSnippet: " \o FieldText(results[1].snippet) \o "\n\n"
       \o Blocks(Tail(results))

\* last describes a search that returned a non-empty result list.
LastSearchWithResults ==
  /\ last.handler = "perform_search"
  /\ ~last.raised
  /\ last.response # <<>>
  /\ last.response[1].results # <<>>

\* C11 (as claimed): for a non-empty result list the result reply is
\* exactly the concatenation of the blocks, and nothing else.
C11_BlocksOnly ==
  LastSearchWithResults =>
    last.replies[2].text = Blocks(last.response[1].results)

\* C11 (amended): for a non-empty result list the result reply is the
\* header "Search Results:\n\n" followed by the concatenation of the blocks
\* in input order; the single result {A, u, None} gives
\* "Search Results:\n\nTitle: A\nURL: u\nSnippet: N/A\n\n".
C11_HeaderThenBlocks ==
  LastSearchWithResults =>
    /\ Len(last.replies) = 2
    /\ last.replies[2].text =
         "Search Results:\n\n" \o Blocks(last.response[1].results)
    /\ last.response[1].results = << SearchResult(<<"A">>, <<"u">>, <<>>) >>
         => last.replies[2].text =
              "Search Results:\n\nTitle: A\nURL: u\nSnippet: N/A\n\n"

\* A search returned two results, one with an empty and one with a None
\* field.
C11_Witness ==
  /\ LastSearchWithResults
  /\ Len(last.response[1].results) = 2
  /\ last.response[1].results[1].snippet = <<>>
  /\ last.response[1].results[2].url = <<"">>

\* ------------------------------------------------------------------ C12
\* C12: a button press, whatever its callback data, from a key whose data
\* collection dialogue is not in GET_DATA, and a plain text message or a
\* /cancel (any update that is no entry point) from a key with no dialogue
\* open, reach no handler: no conversation state and no user's list
\* changes, and neither append_row nor google_search is called.
C12_StrayEventsIgnored ==
  /\ [] \A <<c, u>> \in Keys :
          /\ data_conv[c, u] # GET_DATA =>
               \A data \in CallbackData :
                 Routed(c, u, Update("callback_query", data)) = None
          /\ ( data_conv[c, u] = None /\ search_conv[c, u] = None ) =>
               /\ Routed(c, u, Update("command", "/cancel")) = None
               /\ \A text \in Queries :
                    Routed(c, u, Update("text", text)) = None
  /\ [][ \A <<c, u>> \in Keys :
          ( /\ last'.chat = c /\ last'.user = u
            /\ \/ /\ last'.update.kind = "callback_query"
                  /\ data_conv[c, u] # GET_DATA
               \/ /\ last'.update.kind \in {"text", "command"}
                  /\ last'.handler \notin {"start", "search_command"}
                  /\ data_conv[c, u] = None
                  /\ search_conv[c, u] = None )
          => /\ last'.handler = None
             /\ UNCHANGED << data_conv, search_conv, user_data >>
             /\ last'.append_row = <<>>
             /\ last'.google_search = <<>> ]_vars

\* A button pressed by u1 in chat c2, where u1 has no data collection
\* dialogue, while u1's list holds entries (of the dialogue in c1): no
\* handler ran.
C12_Witness ==
  /\ last.handler = None
  /\ last.update.kind = "callback_query"
  /\ last.chat = "c2" /\ last.user = "u1"
  /\ data_conv["c2", "u1"] = None
  /\ ListOf("u1") # <<>>

\* ------------------------------------------------------------------ C13
\* C13 (as claimed): in no reachable state is the data collection dialogue
\* of a key in GET_DATA while the search dialogue of the same key awaits
\* its query.
C13_OneActiveDialogue ==
  \A <<c, u>> \in Keys :
    ~ ( data_conv[c, u] = GET_DATA
        /\ search_conv[c, u] = RECEIVING_SEARCH_QUERY )

\* ------------------------------------------------------------------ C14
\* C14: a user none of whose data collection dialogues is in GET_DATA
\* (never started, finished or cancelled) has an empty or absent list; and
\* every entry of a user's list was collected by a dialogue of that user
\* that is still open, so no entry outlives the dialogue that collected it.
C14_NoListWithoutDialogue ==
  \A u \in Users :
    /\ ( \A k \in Keys : k[2] = u => data_conv[k] # GET_DATA )
         => ListOf(u) = <<>>
    /\ \A i \in 1..Len(ListOf(u)) :
         \E k \in Keys :
           /\ k[2] = u
           /\ data_conv[k] = GET_DATA
           /\ ListOf(u)[i] \in Range(collected[k])

\* A dialogue that collected entries was ended by /cancel and the user has
\* no dialogue in GET_DATA left.
C14_Witness ==
  /\ last.handler = "cancel_data_collection"
  /\ cancelled # {}
  /\ \A k \in Keys : k[2] = last.user => data_conv[k] # GET_DATA
  /\ ListOf(last.user) = <<>>

\* ------------------------------------------------------------------ C15
\* C15: a data collection dialogue leaves GET_DATA only in a step that handles,
\* for its own chat and user, the "finish" button, the "cancel" button or the
\* /cancel command; a step that handles a plain text message or the "submit
\* data point" / "add more" button for a dialogue in GET_DATA leaves it in
\* GET_DATA. No step stands for the passage of time: the handler is built
\* without conversation_timeout, so a dialogue that receives nothing stays.
C15_LeavesOnlyByUserAction ==
  [][ \A <<c, u>> \in Keys :
        data_conv[c, u] = GET_DATA =>
          /\ data_conv'[c, u] # GET_DATA =>
               /\ last'.chat = c /\ last'.user = u
               /\ \/ /\ last'.handler = "data_button"
                     /\ last'.update.arg \in {"finish_submission",
                                              "cancel_submission"}
                  \/ /\ last'.handler = "cancel_data_collection"
                     /\ last'.update = Update("command", "/cancel")
          /\ ( /\ last'.chat = c /\ last'.user = u
               /\ \/ last'.update.kind = "text"
                  \/ /\ last'.update.kind = "callback_query"
                     /\ last'.update.arg \in {"submit_data", "add_more_data"} )
             => /\ last'.handler \in {"get_data", "data_button"}
                /\ data_conv'[c, u] = GET_DATA ]_vars

\* The "cancel" button has just taken a dialogue out of GET_DATA, and a
\* cancelled dialogue had collected an entry by a text that kept it open.
C15_Witness ==
  /\ last.handler = "data_button"
  /\ last.update.arg = "cancel_submission"
  /\ data_conv[last.chat, last.user] = None
  /\ cancelled # {}

\* ------------------------------------------------------------------ C16
\* C16: a step in which data_button handles "submit data point" or "add more"
\* for a dialogue in GET_DATA leaves every list as it was, makes no
\* append_row call and keeps the dialogue in GET_DATA; a step in which a text
\* message is handled for a dialogue in GET_DATA makes the user's list the
\* old list with exactly that text appended at the end, and changes no other
\* user's list.
C16_ButtonsKeepTextAppends ==
  [][ \A <<c, u>> \in Keys :
        ( data_conv[c, u] = GET_DATA /\ last'.chat = c /\ last'.user = u ) =>
          /\ ( /\ last'.update.kind = "callback_query"
               /\ last'.update.arg \in {"submit_data", "add_more_data"} )
             => /\ last'.handler = "data_button"
                /\ user_data' = user_data
                /\ last'.append_row = <<>>
                /\ data_conv'[c, u] = GET_DATA
          /\ last'.update.kind = "text"
             => /\ last'.handler = "get_data"
                /\ user_data'[u].has
                /\ user_data'[u].current_data =
                     Append(ListOf(u), last'.update.arg)
                /\ \A v \in Users \ {u} : user_data'[v] = user_data[v] ]_vars

\* A text has just been appended behind an earlier entry.
C16_Witness ==
  /\ last.handler = "get_data"
  /\ Len(ListOf(last.user)) = 2
  /\ ListOf(last.user)[2] = last.update.arg
  /\ ListOf(last.user)[1] # last.update.arg

\* ------------------------------------------------------------------ C17
\* C17: every append_row call of every step carries a non-empty row.
C17_NoEmptyRow ==
  \A i \in 1..Len(last.append_row) : Len(last.append_row[i]) > 0

\* "finish" was pressed with the worksheet connected and nothing collected:
\* the step made no append_row call and replied "No data collected yet.".
C17_Witness ==
  /\ worksheet
  /\ LastFinish
  /\ last.replies = Edited(MsgNoData)
  /\ last.append_row = <<>>

====
